---- MODULE Spec2Model ----
(***************************************************************************)
(* Scroll-synchronised card deck of frontend/components/CardStack.tsx, the  *)
(* content-height observers of frontend/components/ScrollySection.tsx, the *)
(* status polling hook useProcessingStatus, the scroll hooks of            *)
(* frontend/hooks/useScrollPosition.ts, the paper page and usePaperData.   *)
(*                                                                         *)
(* JavaScript numbers are modelled as exact rationals <<n, d>> in lowest   *)
(* terms with d > 0, so every product, quotient and comparison of the      *)
(* source is computed as written (floating-point rounding is not           *)
(* modelled).  Scroll progress values are drawn from a grid of Den-ths.    *)
(***************************************************************************)
EXTENDS Integers, FiniteSets, Sequences, TLC

VARIABLES
    N,               \* sections.length, fixed for the page load
    window,          \* "undefined" (server render) or [innerWidth, innerHeight]
    scrollYProgress, \* raw motion value of useScroll
    smoothProgress,  \* spring-smoothed motion value handed to every CardSlot
    activeIndex,     \* CardStack useState, as committed by the last render
    activeIndexQ,    \* queued setActiveIndex update, or NoUpdate
    zIndex,          \* CardSlot useState per card, as committed by the last render
    zIndexQ,         \* queued setZIndex update per card, or NoUpdate
    contentHeights,  \* contentHeightsRef.current
    cardX, cardY, cardScale, cardOpacity, cardRotate, contentY, \* motion values per card
    progress,        \* the value onProgressChange received last, or NoCall
    invoked,         \* whether the last step called onProgressChange
    mounted,         \* StackCard per card: whether it is mounted (contentRef.current set)
    observers,       \* StackCard per card: number of connected ResizeObservers
    reporter,        \* StackCard: the card whose effect or observer reported in the last step
    hookMounted,     \* useProcessingStatus: whether the component using it is mounted
    state,           \* useProcessingStatus useState: state.status
    jobId,           \* useProcessingStatus useState, as committed by the last render
    jobIdQ,          \* queued setJobId update, or NoUpdate
    attemptCount,    \* attemptCountRef.current
    pollingRef,      \* pollingRef.current
    interval,        \* intervalRef.current: NoTimer, or the jobId its poll closure holds
    inFlight,        \* status requests awaiting their response, per job id
    started,         \* the job id passed to the latest startPolling call, or NoJob
    requested,       \* the job id queried by the request issued in the last step, or NoJob
    callbacks,       \* the option callbacks and console calls made in the last step
    hookKind,        \* scroll hook in use: "none", "window" (useScrollPosition) or "container"
    scrollMounted,   \* whether the component using the scroll hook is mounted
    container,       \* useContainerScroll: whether containerRef.current is an element
    enabled,         \* options.enabled of the last render
    threshold,       \* options.threshold of the last render
    scrollEndDelay,  \* options.scrollEndDelay of the last render
    listeners,       \* the events handleScroll is registered for
    timers,          \* pending timeouts of the scroll hook: <<id, remaining delay>>
    scrollTimeoutRef, \* scrollTimeoutRef.current: NoTimer (null) or <<id>>
    lastScrollY,     \* lastScrollY.current
    scrollState,     \* useState of the scroll hook
    quiet,           \* time since handleScroll ran last, up to MaxDelay + 1
    pageMounted,     \* PaperPage: whether the page is mounted
    pageState,       \* PaperPage useState: state.type
    pageJobId,       \* PaperPage useState: jobId
    pageIntervals,   \* PaperPage: ids of the setInterval timers not yet cleared
    pageEffect,      \* PaperPage: NoTimer, or <<pollInterval>> of the polling effect in force
    pageTimerCount,  \* PaperPage: number of intervals created so far
    pageInFlight,    \* PaperPage: status requests awaiting their response, per interval id
    pageFetching,    \* PaperPage: getPaper calls of the completed branch awaiting their response
    pageLoads,       \* PaperPage: getPaper calls of loadPaper awaiting their response
    pageStarts,      \* PaperPage: processArxivPaper calls awaiting their response
    pageArxivId,     \* PaperPage: the arXiv id of the route, "" if none
    pageObserved,    \* PaperPage: whether a poll of the current job has reported completed or failed
    paperMounted,    \* usePaperData: whether the component using it is mounted
    arxivId,         \* usePaperData: the arxivId argument of the last render
    autoFetch,       \* usePaperData: options.autoFetch
    paperState,      \* usePaperData useState
    paperTimer,      \* usePaperData: NoTimer, or <<arxivId>> held by the pending setTimeout(0)
    paperFetches,    \* usePaperData: getPaper calls awaiting their response: <<fetch, arxivId>>
    paperLatest,     \* usePaperData: number of the latest fetch issued per arxivId, 0 if none
    paperIssued,     \* usePaperData: number of getPaper calls issued so far
    paperStarts,     \* usePaperData: processArxivPaper calls awaiting their response
    paperCallbacks   \* usePaperData: the option callbacks invoked in the last step

motionValues == <<cardX, cardY, cardScale, cardOpacity, cardRotate, contentY>>
stackCards == <<mounted, observers, reporter>>
polling == <<hookMounted, state, jobId, jobIdQ, attemptCount, pollingRef, interval,
             inFlight, started, requested, callbacks>>
scrolling == <<hookKind, scrollMounted, container, enabled, threshold, scrollEndDelay,
               listeners, timers, scrollTimeoutRef, lastScrollY, scrollState, quiet>>
paperPage == <<pageMounted, pageState, pageJobId, pageIntervals, pageEffect, pageTimerCount,
               pageInFlight, pageFetching, pageLoads, pageStarts, pageArxivId, pageObserved>>
paperData == <<paperMounted, arxivId, autoFetch, paperState, paperTimer, paperFetches,
               paperLatest, paperIssued, paperStarts, paperCallbacks>>
hooks == <<scrolling, paperPage, paperData>>

vars == <<N, window, scrollYProgress, smoothProgress, activeIndex, activeIndexQ,
          zIndex, zIndexQ, contentHeights, motionValues, progress, invoked,
          stackCards, polling, hooks>>

\* ------------------------------------------------------------------ bounds
MaxN == 7        \* largest deck
MaxSmallN == 4   \* largest deck where updates queue up or content heights vary
Den == 1200      \* scroll progress values are multiples of 1/Den
MaxAttempts == 3 \* the maxAttempts option of useProcessingStatus
MaxInFlight == 2 \* most status requests of one job awaiting their response
MaxDelay == 2    \* longest scrollEndDelay, in units of time
MaxTimers == 3   \* timeout ids the host hands out to the scroll hook
MaxIntervals == 3 \* most intervals PaperPage creates in one page load
MaxFetches == 3  \* most getPaper calls usePaperData issues in one page load

\* ------------------------------------------------------- exact arithmetic
RECURSIVE GCD(_, _)
GCD(a, b) == IF b = 0 THEN a ELSE GCD(b, a % b)

Abs(x) == IF x < 0 THEN -x ELSE x

\* (operators take the shared subterms of the source's expressions as
\* arguments, which are evaluated once)
Reduced(n, d, g) == <<n \div g, d \div g>>
Rat(n, d) == IF d < 0 THEN Reduced(-n, -d, GCD(Abs(n), -d))
                      ELSE Reduced(n, d, GCD(Abs(n), d))

RInt(k) == <<k, 1>>
Zero == RInt(0)
One == RInt(1)
RAdd(a, b) == Rat(a[1] * b[2] + b[1] * a[2], a[2] * b[2])
RSub(a, b) == Rat(a[1] * b[2] - b[1] * a[2], a[2] * b[2])
RMul(a, b) == Rat(a[1] * b[1], a[2] * b[2])
RDiv(a, b) == Rat(a[1] * b[2], a[2] * b[1])
RNeg(a) == <<-a[1], a[2]>>
RLt(a, b) == a[1] * b[2] < b[1] * a[2]
RLe(a, b) == a[1] * b[2] <= b[1] * a[2]
RMax(a, b) == IF RLt(a, b) THEN b ELSE a
RMin(a, b) == IF RLt(b, a) THEN b ELSE a
RFloor(a) == a[1] \div a[2]
IMin(a, b) == IF b < a THEN b ELSE a

\* ------------------------------------------------- deck layout constants
EXIT_THRESHOLD == Rat(3, 4)
STACK_GAP_X == 12
STACK_GAP_Y == 10
STACK_SCALE_STEP == Rat(3, 100)
STACK_OPACITY_STEP == Rat(15, 100)

\* an empty queue of state updates / a listener that was never called
NoUpdate == <<>>
NoCall == <<>>
\* no card has reported its height / no job id (null) / no interval timer
NoCard == <<>>
NoJob == "null"
NoTimer == <<>>
\* the window object: absent while rendering on the server
Undefined == [defined |-> FALSE, innerWidth |-> 0, innerHeight |-> 0]
Browser(w, h) == [defined |-> TRUE, innerWidth |-> w, innerHeight |-> h]

Cards(n) == 0 .. (n - 1)

\* typeof window !== "undefined" ? window.innerWidth : 1000
InnerWidth(w) == IF w.defined THEN w.innerWidth ELSE 1000
\* typeof window !== "undefined" ? window.innerHeight - 96 : 600
CardViewportHeight(w) == IF w.defined THEN w.innerHeight - 96 ELSE 600

\* -------------------------------------------------------------- CardSlot
\* mutant: the index is not capped at the last card
CurrentActive_NoCap(v, n) == RFloor(RMul(v, RInt(n)))

\* Math.min(Math.floor(v * N), N - 1)
CurrentActive(v, n) == IMin(RFloor(RMul(v, RInt(n))), n - 1)

\* activeSegStart + (activeSegEnd - activeSegStart) * EXIT_THRESHOLD
ActiveExitStart(activeSegStart, activeSegEnd) ==
    RAdd(activeSegStart, RMul(RSub(activeSegEnd, activeSegStart), EXIT_THRESHOLD))

\* mutant: the ramp is taken over the whole segment instead of its exit phase
ExitRamp_WholeSegment(v, activeSegStart, activeExitStart, activeSegEnd) ==
    IF RLe(activeExitStart, v) /\ RLt(v, activeSegEnd)
    THEN RDiv(RSub(v, activeExitStart), RSub(activeSegEnd, activeSegStart))
    ELSE Zero

\* v >= activeExitStart && v < activeSegEnd
\*   ? (v - activeExitStart) / (activeSegEnd - activeExitStart) : 0
ExitRamp(v, activeSegStart, activeExitStart, activeSegEnd) ==
    IF RLe(activeExitStart, v) /\ RLt(v, activeSegEnd)
    THEN RDiv(RSub(v, activeExitStart), RSub(activeSegEnd, activeExitStart))
    ELSE Zero

ExitProgressIn(v, activeSegStart, activeSegEnd) ==
    ExitRamp(v, activeSegStart, ActiveExitStart(activeSegStart, activeSegEnd), activeSegEnd)

\* exit progress for the currently-active card's exit phase
ExitProgress(v, n, currentActive) ==
    ExitProgressIn(v, RDiv(RInt(currentActive), RInt(n)),
                      RDiv(RInt(currentActive + 1), RInt(n)))

DeckStateOf(index, n, v, currentActive) ==
    [rawDeckPos |-> index - currentActive, currentActive |-> currentActive,
     exitProgress |-> ExitProgress(v, n, currentActive)]

getDeckState(index, n, v) == DeckStateOf(index, n, v, CurrentActive(v, n))

\* mutant: cards behind an exiting card do not shift forward
DeckPos_NoShift(s) == RInt(s.rawDeckPos)

\* deckPos of a card still in the deck: cards behind an exiting card shift forward
DeckPos(s) ==
    IF RLt(Zero, s.exitProgress) /\ s.rawDeckPos > 0
    THEN RSub(RInt(s.rawDeckPos), s.exitProgress)
    ELSE RInt(s.rawDeckPos)

IsExiting(index, s) == index = s.currentActive /\ RLt(Zero, s.exitProgress)

\* the transforms, given the deck state s = getDeckState(v) of the card
CardXAt(index, s, vw) ==
    IF IsExiting(index, s)
    THEN RMul(RMul(RNeg(s.exitProgress), Rat(11, 10)), vw)
    ELSE IF s.rawDeckPos < 0
    THEN RMul(Rat(-11, 10), vw)
    ELSE RMul(DeckPos(s), RInt(STACK_GAP_X))

CardXOf(index, n, v, w) == CardXAt(index, getDeckState(index, n, v), RInt(InnerWidth(w)))

\* mutant: queued cards do not move up while the card in front of them exits
CardYAt_NoShift(index, s) ==
    IF IsExiting(index, s) THEN Zero
    ELSE IF s.rawDeckPos < 0 THEN Zero
    ELSE RMul(RInt(s.rawDeckPos), RInt(STACK_GAP_Y))

CardYAt(index, s) ==
    IF IsExiting(index, s) THEN Zero
    ELSE IF s.rawDeckPos < 0 THEN Zero
    ELSE RMul(DeckPos(s), RInt(STACK_GAP_Y))

CardYOf(index, n, v) == CardYAt(index, getDeckState(index, n, v))

\* mutant: the scale of a card in the deck has no floor
CardScaleAt_NoFloor(index, s) ==
    IF IsExiting(index, s)
    THEN RSub(One, RMul(s.exitProgress, Rat(5, 100)))
    ELSE IF s.rawDeckPos < 0 THEN Rat(95, 100)
    ELSE RSub(One, RMul(DeckPos(s), STACK_SCALE_STEP))

\* mutant: the scale step also applies to the card at deck position 0
CardScaleAt_ShrinkActive(index, s) ==
    IF IsExiting(index, s)
    THEN RSub(One, RMul(s.exitProgress, Rat(5, 100)))
    ELSE IF s.rawDeckPos < 0 THEN Rat(95, 100)
    ELSE RMax(Rat(88, 100), RSub(One, RMul(RAdd(DeckPos(s), One), STACK_SCALE_STEP)))

CardScaleAt(index, s) ==
    IF IsExiting(index, s)
    THEN RSub(One, RMul(s.exitProgress, Rat(5, 100)))
    ELSE IF s.rawDeckPos < 0 THEN Rat(95, 100)
    ELSE RMax(Rat(88, 100), RSub(One, RMul(DeckPos(s), STACK_SCALE_STEP)))

CardScaleOf(index, n, v) == CardScaleAt(index, getDeckState(index, n, v))

\* mutant: the opacity of a card in the deck has no floor
CardOpacityAt_NoFloor(index, s) ==
    IF IsExiting(index, s)
    THEN RSub(One, s.exitProgress)
    ELSE IF s.rawDeckPos < 0 THEN Zero
    ELSE RSub(One, RMul(DeckPos(s), STACK_OPACITY_STEP))

CardOpacityAt(index, s) ==
    IF IsExiting(index, s)
    THEN RSub(One, s.exitProgress)
    ELSE IF s.rawDeckPos < 0 THEN Zero
    ELSE RMax(Rat(25, 100), RSub(One, RMul(DeckPos(s), STACK_OPACITY_STEP)))

CardOpacityOf(index, n, v) == CardOpacityAt(index, getDeckState(index, n, v))

\* mutant: the exiting card tilts the other way
CardRotateAt_Clockwise(index, s) ==
    IF IsExiting(index, s)
    THEN RMul(RInt(3), s.exitProgress)
    ELSE Zero

CardRotateAt(index, s) ==
    IF IsExiting(index, s)
    THEN RMul(RInt(-3), s.exitProgress)
    ELSE Zero

CardRotateOf(index, n, v) == CardRotateAt(index, getDeckState(index, n, v))

\* mutant: the content phase progress is not capped at 1
ContentPhaseProgress_NoCap(localProgress) == RDiv(localProgress, EXIT_THRESHOLD)

\* Math.min(localProgress / EXIT_THRESHOLD, 1)
ContentPhaseProgress(localProgress) == RMin(RDiv(localProgress, EXIT_THRESHOLD), One)

\* contentHeightsRef.current?.[index] || 0
ContentHeight(heights, index) == IF heights[index] = 0 THEN 0 ELSE heights[index]

\* Math.max(0, contentHeight - cardViewportHeight)
MaxScroll(contentHeight, cardViewportHeight) ==
    RMax(Zero, RInt(contentHeight - cardViewportHeight))

ContentYIn(v, segStart, segEnd, maxScroll) ==
    IF RLt(v, segStart) \/ RLe(segEnd, v) THEN Zero
    ELSE RMul(RNeg(ContentPhaseProgress(RDiv(RSub(v, segStart), RSub(segEnd, segStart)))),
              maxScroll)

ContentYOf(index, n, v, heights, w) ==
    ContentYIn(v, RDiv(RInt(index), RInt(n)), RDiv(RInt(index + 1), RInt(n)),
               MaxScroll(ContentHeight(heights, index), CardViewportHeight(w)))

\* mutant: an exited card keeps its place in the stacking order
ZAt_NoExitedBranch(index, n, s) ==
    IF IsExiting(index, s) THEN n + 1 ELSE n - s.rawDeckPos

\* the z computed by the "change" handler of a CardSlot
ZAt(index, n, s) ==
    IF s.rawDeckPos < 0 THEN 0
    ELSE IF IsExiting(index, s) THEN n + 1
    ELSE n - s.rawDeckPos

ZOf(index, n, v) == ZAt(index, n, getDeckState(index, n, v))

\* if (z !== zIndex) setZIndex(z): zIndex is the value of the last render
SetIfChanged(z, committed, queued) == IF z # committed THEN <<z>> ELSE queued

ZIndexHandler(index, n, v, committed, queued) ==
    SetIfChanged(ZOf(index, n, v), committed, queued)

\* ------------------------------------------------------------- CardStack
\* mutant: the index is not capped at the last card
NewActive_NoCap(latest, n) == RFloor(RMul(latest, RInt(n)))

NewActive(latest, n) == IMin(RFloor(RMul(latest, RInt(n))), n - 1)

\* mutant: a negative index is not rejected
SetActiveIfChanged_NoGuard(newActive, committed, queued) ==
    IF newActive # committed THEN <<newActive>> ELSE queued

\* if (newActive >= 0 && newActive !== activeIndex) setActiveIndex(newActive)
SetActiveIfChanged(newActive, committed, queued) ==
    IF newActive >= 0 /\ newActive # committed THEN <<newActive>> ELSE queued

ActiveIndexHandler(latest, n, committed, queued) ==
    SetActiveIfChanged(NewActive(latest, n), committed, queued)

\* useEffect body: if (onProgressChange && N > 1) onProgressChange(activeIndex / (N - 1))
EffectCalls(n) == n > 1

\* mutant: the index is normalised by N instead of N - 1
ProgressEffect_DivN(active, n, last) ==
    IF EffectCalls(n) THEN <<RDiv(RInt(active), RInt(n))>> ELSE last

ProgressEffect(active, n, last) ==
    IF EffectCalls(n) THEN <<RDiv(RInt(active), RInt(n - 1))>> ELSE last

\* ----------------------------------------------------------- environment
\* segment boundaries and exit starts of every deck of up to 5 cards, points inside
\* the content and exit phases, and the scenario values 0.1 and 0.19
Ticks == {t \in 0 .. Den : t % 60 = 0 \/ t % 75 = 0 \/ t % 100 = 0 \/ t = 228}
ScrollValues == {Rat(t, Den) : t \in Ticks}
CoarseValues == {Rat(t, Den) : t \in {t \in 0 .. Den : t % 300 = 0 \/ t = 228}}
QueuedValues == {Rat(t, Den) : t \in {t \in 0 .. Den : t % 600 = 0 \/ t = 228}}
\* values past either end of the track, up to one segment of the shortest deck
OverscrollValues ==
    {Rat(t, Den) : t \in {-Den, -(Den \div 2), -(Den \div 4), -(Den \div 8), -(Den \div 24),
                          -1, Den + 1, Den + (Den \div 8), Den + (Den \div 2), 2 * Den}}
\* values one grid step below the segment boundaries of the decks of 2, 3, 4 and 6 cards
ApproachValues == {Rat(t, Den) : t \in {t \in 0 .. Den : (t + 1) % 200 = 0}}
Windows == {Undefined, Browser(1280, 800)}
Heights == {-50, 0, 1500}
Jobs == {"job1", "job2"}

\* useState: the value after the queued updates are applied by a render
Committed(committed, queued) == IF queued = NoUpdate THEN committed ELSE queued[1]

\* every StackCard is mounted and its effect has connected one ResizeObserver
InitStackCards ==
    /\ mounted = [i \in Cards(N) |-> TRUE]
    /\ observers = [i \in Cards(N) |-> 1]
    /\ reporter = NoCard

\* useProcessingStatus after its first render: idle, no job, no timer
InitPolling ==
    /\ hookMounted = TRUE
    /\ state = "idle"
    /\ jobId = NoJob
    /\ jobIdQ = NoUpdate
    /\ attemptCount = 0
    /\ pollingRef = FALSE
    /\ interval = NoTimer
    /\ inFlight = [j \in Jobs |-> 0]
    /\ started = NoJob
    /\ requested = NoJob
    /\ callbacks = {}

\* the values the hosts report and the options the callers pass
ScrollOffsets == {-50, 0, 250, 600}          \* scrollY or scrollTop, overscroll included
MaxScrolls == {0, 500}                         \* scrollHeight - clientHeight
Thresholds == {50, 300}
Delays == 1 .. MaxDelay
ArxivIds == {"2301.00001", "2301.00002"}
NoArxivId == ""
IntervalIds == 1 .. MaxIntervals

\* the scroll hooks before the component that uses one of them mounts
InitScrolling ==
    /\ hookKind = "none"
    /\ scrollMounted = FALSE
    /\ container = FALSE
    /\ enabled = TRUE
    /\ threshold = 50
    /\ scrollEndDelay = 1
    /\ listeners = {}
    /\ timers = {}
    /\ scrollTimeoutRef = NoTimer
    /\ lastScrollY = 0
    /\ scrollState = [scrollY |-> 0, scrollProgress |-> Zero, direction |-> "null",
                      isScrolling |-> FALSE, isScrolled |-> FALSE]
    /\ quiet = 0

\* PaperPage before it mounts
InitPaperPage ==
    /\ pageMounted = FALSE
    /\ pageState = "loading"
    /\ pageJobId = NoJob
    /\ pageIntervals = {}
    /\ pageEffect = NoTimer
    /\ pageTimerCount = 0
    /\ pageInFlight = [id \in IntervalIds |-> 0]
    /\ pageFetching = 0
    /\ pageLoads = 0
    /\ pageStarts = 0
    /\ pageArxivId = NoArxivId
    /\ pageObserved = FALSE

\* usePaperData before the component that uses it mounts
InitPaperData ==
    /\ paperMounted = FALSE
    /\ arxivId = NoArxivId
    /\ autoFetch = TRUE
    /\ paperState = [status |-> "idle", arxivId |-> NoArxivId, fetch |-> 0]
    /\ paperTimer = NoTimer
    /\ paperFetches = {}
    /\ paperLatest = [id \in ArxivIds |-> 0]
    /\ paperIssued = 0
    /\ paperStarts = 0
    /\ paperCallbacks = {}

InitHooks == InitScrolling /\ InitPaperPage /\ InitPaperData

\* the mounted deck at the top of the page: the effect has run once
InitFrom(minN, maxN) ==
    /\ N \in minN .. maxN
    /\ window \in Windows
    /\ scrollYProgress = Zero
    /\ smoothProgress = Zero
    /\ activeIndex = 0
    /\ activeIndexQ = NoUpdate
    /\ zIndex = [i \in Cards(N) |-> N - i]
    /\ zIndexQ = [i \in Cards(N) |-> NoUpdate]
    /\ contentHeights = [i \in Cards(N) |-> 0]
    /\ cardX = [i \in Cards(N) |-> CardXOf(i, N, Zero, window)]
    /\ cardY = [i \in Cards(N) |-> CardYOf(i, N, Zero)]
    /\ cardScale = [i \in Cards(N) |-> CardScaleOf(i, N, Zero)]
    /\ cardOpacity = [i \in Cards(N) |-> CardOpacityOf(i, N, Zero)]
    /\ cardRotate = [i \in Cards(N) |-> CardRotateOf(i, N, Zero)]
    /\ contentY = [i \in Cards(N) |-> ContentYOf(i, N, Zero, contentHeights, window)]
    /\ progress = ProgressEffect(0, N, NoCall)
    /\ invoked = EffectCalls(N)
    /\ InitStackCards
    /\ InitPolling
    /\ InitHooks

InitFor(maxN) == InitFrom(1, maxN)

Init == InitFor(MaxSmallN)
InitDeck == InitFor(MaxN)

\* smoothProgress changes to v: every useTransform of every CardSlot is recomputed
Transforms(v) ==
    /\ smoothProgress' = v
    /\ cardX' = [i \in Cards(N) |-> CardXOf(i, N, v, window)]
    /\ cardY' = [i \in Cards(N) |-> CardYOf(i, N, v)]
    /\ cardScale' = [i \in Cards(N) |-> CardScaleOf(i, N, v)]
    /\ cardOpacity' = [i \in Cards(N) |-> CardOpacityOf(i, N, v)]
    /\ cardRotate' = [i \in Cards(N) |-> CardRotateOf(i, N, v)]
    /\ contentY' = [i \in Cards(N) |-> ContentYOf(i, N, v, contentHeights, window)]

\* a spring frame: the transforms and the "change" handler of every CardSlot run
SpringFrame(v) ==
    /\ v # smoothProgress
    /\ Transforms(v)
    /\ zIndexQ' = [i \in Cards(N) |-> ZIndexHandler(i, N, v, zIndex[i], zIndexQ[i])]
    /\ invoked' = FALSE
    /\ UNCHANGED <<N, window, progress, scrollYProgress, activeIndex, activeIndexQ, zIndex,
                   contentHeights, stackCards, polling, hooks>>

\* a scroll event: the "change" handler of CardStack runs
Scroll(latest) ==
    /\ latest # scrollYProgress
    /\ scrollYProgress' = latest
    /\ activeIndexQ' = ActiveIndexHandler(latest, N, activeIndex, activeIndexQ)
    /\ invoked' = FALSE
    /\ UNCHANGED <<N, window, progress, smoothProgress, activeIndex, zIndex, zIndexQ,
                   contentHeights, motionValues, stackCards, polling, hooks>>

\* React applies the queued updates, re-renders, and runs the effect whose
\* dependency activeIndex changed
Render ==
    /\ activeIndexQ # NoUpdate \/ \E i \in Cards(N) : zIndexQ[i] # NoUpdate
    /\ activeIndex' = Committed(activeIndex, activeIndexQ)
    /\ activeIndexQ' = NoUpdate
    /\ zIndex' = [i \in Cards(N) |-> Committed(zIndex[i], zIndexQ[i])]
    /\ zIndexQ' = [i \in Cards(N) |-> NoUpdate]
    /\ invoked' = (activeIndex' # activeIndex /\ EffectCalls(N))
    /\ progress' = IF activeIndex' # activeIndex
                   THEN ProgressEffect(activeIndex', N, progress) ELSE progress
    /\ UNCHANGED <<N, window, scrollYProgress, smoothProgress, contentHeights,
                   motionValues, stackCards, polling, hooks>>

\* StackCard reports its content's scrollHeight (on mount and from its ResizeObserver)
handleContentHeight(index, height) ==
    /\ contentHeights' = [contentHeights EXCEPT ![index] = height]
    /\ invoked' = FALSE
    /\ UNCHANGED <<N, window, progress, scrollYProgress, smoothProgress, activeIndex,
                   activeIndexQ, zIndex, zIndexQ, motionValues, stackCards, polling, hooks>>

\* ------------------------------------------------------------- StackCard
\* mutant: the cleanup of the effect leaves its observer connected
Disconnect_Leak(connected) == connected

\* observer.disconnect(): the observer created by this run of the effect
Disconnect(connected) == connected - 1

\* new ResizeObserver(() => reportHeight()); observer.observe(el)
Observe(connected) == connected + 1

\* a StackCard mounts: the effect reports the height and connects an observer
MountCard(index, height) ==
    /\ ~mounted[index]
    /\ mounted' = [mounted EXCEPT ![index] = TRUE]
    /\ contentHeights' = [contentHeights EXCEPT ![index] = height]
    /\ reporter' = <<index>>
    /\ observers' = [observers EXCEPT ![index] = Observe(@)]
    /\ invoked' = FALSE
    /\ UNCHANGED <<N, window, progress, scrollYProgress, smoothProgress, activeIndex,
                   activeIndexQ, zIndex, zIndexQ, motionValues, polling, hooks>>

\* a StackCard unmounts: the cleanup of the effect runs, contentRef.current is null
UnmountCard(index) ==
    /\ mounted[index]
    /\ mounted' = [mounted EXCEPT ![index] = FALSE]
    /\ observers' = [observers EXCEPT ![index] = Disconnect(@)]
    /\ reporter' = NoCard
    /\ invoked' = FALSE
    /\ UNCHANGED <<N, window, progress, scrollYProgress, smoothProgress, activeIndex,
                   activeIndexQ, zIndex, zIndexQ, contentHeights, motionValues, polling, hooks>>

\* reportHeight changes identity: the cleanup runs, then the effect runs again
EffectRerun(index, height) ==
    /\ mounted[index]
    /\ contentHeights' = [contentHeights EXCEPT ![index] = height]
    /\ reporter' = <<index>>
    /\ observers' = [observers EXCEPT ![index] = Observe(Disconnect(@))]
    /\ invoked' = FALSE
    /\ UNCHANGED <<N, window, progress, scrollYProgress, smoothProgress, activeIndex,
                   activeIndexQ, zIndex, zIndexQ, motionValues, mounted, polling, hooks>>

\* a connected observer delivers a size change: reportHeight runs, and reports
\* when contentRef.current is set
ResizeObserved(index, height) ==
    /\ observers[index] > 0
    /\ IF mounted[index]
       THEN /\ contentHeights' = [contentHeights EXCEPT ![index] = height]
            /\ reporter' = <<index>>
       ELSE /\ reporter' = NoCard
            /\ UNCHANGED contentHeights
    /\ invoked' = FALSE
    /\ UNCHANGED <<N, window, progress, scrollYProgress, smoothProgress, activeIndex,
                   activeIndexQ, zIndex, zIndexQ, motionValues, mounted, observers, polling, hooks>>

\* --------------------------------------------------- useProcessingStatus
deck == <<N, window, scrollYProgress, smoothProgress, activeIndex, activeIndexQ,
          zIndex, zIndexQ, contentHeights, motionValues, progress, invoked, stackCards>>

\* response.status of a StatusResponse
Responses == {"queued", "processing", "completed", "failed"}

\* if (!jobId || !pollingRef.current) return: jobId is the one the closure holds
PollRuns(closureJobId, pollingNow) == closureJobId # NoJob /\ pollingNow

\* poll() up to its await, run by a closure that holds closureJobId, after
\* pollingRef.current and attemptCountRef.current have the values pollingNow and
\* attempts; timer is the interval left running by the caller
PollFrom(closureJobId, pollingNow, attempts, timer, stateNow) ==
    IF ~PollRuns(closureJobId, pollingNow)
    THEN /\ attemptCount' = attempts
         /\ pollingRef' = pollingNow
         /\ interval' = timer
         /\ state' = stateNow
         /\ requested' = NoJob
         /\ callbacks' = {}
         /\ UNCHANGED inFlight
    ELSE /\ attemptCount' = attempts + 1
         /\ IF attempts + 1 > MaxAttempts
            THEN /\ pollingRef' = FALSE
                 /\ interval' = NoTimer
                 /\ state' = "error"
                 /\ requested' = NoJob
                 /\ callbacks' = {"onError"}
                 /\ UNCHANGED inFlight
            ELSE /\ pollingRef' = pollingNow
                 /\ interval' = timer
                 /\ state' = stateNow
                 /\ requested' = closureJobId
                 /\ callbacks' = {}
                 /\ inFlight' = [inFlight EXCEPT ![closureJobId] = @ + 1]

\* startPolling(newJobId) of the last render: its poll holds that render's jobId
startPolling(newJobId) ==
    /\ hookMounted
    /\ jobId # NoJob => inFlight[jobId] < MaxInFlight
    /\ jobIdQ' = <<newJobId>>
    /\ started' = newJobId
    /\ PollFrom(jobId, TRUE, 0, <<jobId>>, "polling")
    /\ UNCHANGED <<deck, hooks, hookMounted, jobId>>

\* the interval fires: the poll it was created with runs
Tick ==
    /\ interval # NoTimer
    /\ interval[1] # NoJob => inFlight[interval[1]] < MaxInFlight
    /\ PollFrom(interval[1], pollingRef, attemptCount, interval, state)
    /\ UNCHANGED <<deck, hooks, hookMounted, jobId, jobIdQ, started>>

\* getProcessingStatus resolves: the rest of the try block of that poll runs
Respond(job, response) ==
    /\ inFlight[job] > 0
    /\ inFlight' = [inFlight EXCEPT ![job] = @ - 1]
    /\ requested' = NoJob
    /\ IF response = "completed"
       THEN /\ interval' = NoTimer /\ pollingRef' = FALSE
            /\ state' = "completed"
            /\ callbacks' = {"onStatusUpdate", "onComplete"}
       ELSE IF response = "failed"
       THEN /\ interval' = NoTimer /\ pollingRef' = FALSE
            /\ state' = "failed"
            /\ callbacks' = {"onStatusUpdate", "onFailed"}
       ELSE /\ state' = "polling"
            /\ callbacks' = {"onStatusUpdate"}
            /\ UNCHANGED <<interval, pollingRef>>
    /\ UNCHANGED <<deck, hooks, hookMounted, jobId, jobIdQ, attemptCount, started>>

\* mutant: a rejected request ends the polling with the error state
RequestThrows_Stops(job) ==
    /\ inFlight[job] > 0
    /\ inFlight' = [inFlight EXCEPT ![job] = @ - 1]
    /\ requested' = NoJob
    /\ callbacks' = {"console.error", "onError"}
    /\ interval' = NoTimer
    /\ pollingRef' = FALSE
    /\ state' = "error"
    /\ UNCHANGED <<deck, hooks, hookMounted, jobId, jobIdQ, attemptCount, started>>

\* getProcessingStatus rejects: the catch block only logs
RequestThrows(job) ==
    /\ inFlight[job] > 0
    /\ inFlight' = [inFlight EXCEPT ![job] = @ - 1]
    /\ requested' = NoJob
    /\ callbacks' = {"console.error"}
    /\ UNCHANGED <<deck, hooks, hookMounted, state, jobId, jobIdQ, attemptCount, pollingRef,
                   interval, started>>

\* React applies the queued setJobId: poll and startPolling are created anew
RenderHook ==
    /\ hookMounted
    /\ jobIdQ # NoUpdate
    /\ jobId' = jobIdQ[1]
    /\ jobIdQ' = NoUpdate
    /\ requested' = NoJob
    /\ callbacks' = {}
    /\ UNCHANGED <<deck, hooks, hookMounted, state, attemptCount, pollingRef, interval, inFlight,
                   started>>

\* cleanup(): clearInterval and pollingRef.current = false
stopPolling ==
    /\ hookMounted
    /\ interval' = NoTimer
    /\ pollingRef' = FALSE
    /\ requested' = NoJob
    /\ callbacks' = {}
    /\ UNCHANGED <<deck, hooks, hookMounted, state, jobId, jobIdQ, attemptCount, inFlight, started>>

reset ==
    /\ hookMounted
    /\ interval' = NoTimer
    /\ pollingRef' = FALSE
    /\ jobIdQ' = <<NoJob>>
    /\ attemptCount' = 0
    /\ state' = "idle"
    /\ requested' = NoJob
    /\ callbacks' = {}
    /\ UNCHANGED <<deck, hooks, hookMounted, jobId, inFlight, started>>

\* the component unmounts: the effect's cleanup runs
UnmountHook ==
    /\ hookMounted
    /\ hookMounted' = FALSE
    /\ interval' = NoTimer
    /\ pollingRef' = FALSE
    /\ requested' = NoJob
    /\ callbacks' = {}
    /\ UNCHANGED <<deck, hooks, state, jobId, jobIdQ, attemptCount, inFlight, started>>

\* a spring frame, rendered before the next event arrives
FrameRendered(v) ==
    /\ v # smoothProgress
    /\ Transforms(v)
    /\ zIndex' = [i \in Cards(N) |->
                    Committed(zIndex[i], ZIndexHandler(i, N, v, zIndex[i], zIndexQ[i]))]
    /\ zIndexQ' = [i \in Cards(N) |-> NoUpdate]
    /\ invoked' = FALSE
    /\ UNCHANGED <<N, window, progress, scrollYProgress, activeIndex, activeIndexQ,
                   contentHeights, stackCards, polling, hooks>>

\* a scroll event, rendered before the next event arrives
ScrollRendered(latest) ==
    /\ latest # scrollYProgress
    /\ scrollYProgress' = latest
    /\ activeIndex' =
           Committed(activeIndex, ActiveIndexHandler(latest, N, activeIndex, activeIndexQ))
    /\ activeIndexQ' = NoUpdate
    /\ invoked' = (activeIndex' # activeIndex /\ EffectCalls(N))
    /\ progress' = IF activeIndex' # activeIndex
                   THEN ProgressEffect(activeIndex', N, progress) ELSE progress
    /\ UNCHANGED <<N, window, smoothProgress, zIndex, zIndexQ, contentHeights,
                   motionValues, stackCards, polling, hooks>>

\* ----------------------------------- useScrollPosition, useContainerScroll
Hundred == RInt(100)

\* calculateProgress of useScrollPosition
CalculateProgress(scrollY, maxScroll) ==
    IF maxScroll <= 0 THEN Zero
    ELSE RMin(Hundred, RMul(Rat(scrollY, maxScroll), Hundred))

\* Math.min(100, progress) of useContainerScroll
ContainerProgress(currentY, maxScroll) ==
    RMin(Hundred, IF maxScroll > 0 THEN RMul(Rat(currentY, maxScroll), Hundred) ELSE Zero)

DirectionOf(currentY, last) ==
    IF currentY > last THEN "down" ELSE IF currentY < last THEN "up" ELSE "null"

ClearTimeout_Keeps(pending, ref) == pending

\* if (scrollTimeoutRef.current) clearTimeout(scrollTimeoutRef.current)
ClearTimeout(pending, ref) ==
    IF ref = NoTimer THEN pending ELSE {t \in pending : t[1] # ref[1]}

\* setTimeout returns an id that no pending timer has and that differs from the last one
FreeTimers(pending, ref) ==
    {id \in 1 .. MaxTimers : ref # <<id>> /\ \A t \in pending : t[1] # id}
NewTimer(pending, ref) ==
    CHOOSE id \in FreeTimers(pending, ref) : \A other \in FreeTimers(pending, ref) : id <= other

\* handleScroll of the hook of this kind, the host reporting currentY and maxScroll,
\* while the timers in pending are waiting
HandleScroll(kind, currentY, maxScroll, th, delay, pending) ==
    /\ FreeTimers(ClearTimeout(pending, scrollTimeoutRef), scrollTimeoutRef) # {}
    /\ scrollState' =
           [scrollY |-> currentY,
            scrollProgress |-> IF kind = "window" THEN CalculateProgress(currentY, maxScroll)
                               ELSE ContainerProgress(currentY, maxScroll),
            direction |-> DirectionOf(currentY, lastScrollY),
            isScrolling |-> TRUE,
            isScrolled |-> IF kind = "window" THEN currentY > th ELSE currentY > 0]
    /\ lastScrollY' = currentY
    /\ timers' = ClearTimeout(pending, scrollTimeoutRef)
                     \cup {<<NewTimer(ClearTimeout(pending, scrollTimeoutRef), scrollTimeoutRef), delay>>}
    /\ scrollTimeoutRef' = <<NewTimer(ClearTimeout(pending, scrollTimeoutRef), scrollTimeoutRef)>>
    /\ quiet' = 0

\* the cleanup of the effect in force, if it returned one
ScrollCleanup == IF listeners = {} THEN timers ELSE ClearTimeout(timers, scrollTimeoutRef)

\* the body of the effect: an early return, or handleScroll() and addEventListener
ScrollEffect(kind, en, cont, currentY, maxScroll, th, delay, pending) ==
    IF en /\ (kind = "window" \/ cont)
    THEN /\ HandleScroll(kind, currentY, maxScroll, th, delay, pending)
         /\ listeners' = IF kind = "window" THEN {"scroll", "resize"} ELSE {"scroll"}
    ELSE /\ listeners' = {}
         /\ timers' = pending
         /\ UNCHANGED <<scrollTimeoutRef, lastScrollY, scrollState, quiet>>

\* a component that uses one of the two hooks mounts
MountScroll(kind, en, th, delay, cont, currentY, maxScroll) ==
    /\ hookKind = "none"
    /\ kind = "window" => cont
    /\ kind = "container" => th = threshold
    /\ hookKind' = kind
    /\ scrollMounted' = TRUE
    /\ container' = cont
    /\ enabled' = en
    /\ threshold' = th
    /\ scrollEndDelay' = delay
    /\ ScrollEffect(kind, en, cont, currentY, maxScroll, th, delay, timers)
    /\ UNCHANGED <<deck, polling, paperPage, paperData>>

\* a render with other options: the dependencies changed, so the cleanup and then
\* the effect run
OptionsChange(en, th, delay, currentY, maxScroll) ==
    /\ scrollMounted
    /\ <<en, th, delay>> # <<enabled, threshold, scrollEndDelay>>
    /\ hookKind = "container" => th = threshold
    /\ enabled' = en
    /\ threshold' = th
    /\ scrollEndDelay' = delay
    /\ ScrollEffect(hookKind, en, container, currentY, maxScroll, th, delay, ScrollCleanup)
    /\ UNCHANGED <<deck, polling, paperPage, paperData, hookKind, scrollMounted, container>>

ScrollEvent(currentY, maxScroll) ==
    /\ "scroll" \in listeners
    /\ HandleScroll(hookKind, currentY, maxScroll, threshold, scrollEndDelay, timers)
    /\ UNCHANGED <<deck, polling, paperPage, paperData, hookKind, scrollMounted, container,
                   enabled, threshold, scrollEndDelay, listeners>>

ResizeEvent(currentY, maxScroll) ==
    /\ "resize" \in listeners
    /\ HandleScroll(hookKind, currentY, maxScroll, threshold, scrollEndDelay, timers)
    /\ UNCHANGED <<deck, polling, paperPage, paperData, hookKind, scrollMounted, container,
                   enabled, threshold, scrollEndDelay, listeners>>

\* a unit of time passes with no event
TimePasses ==
    /\ hookKind # "none"
    /\ quiet <= MaxDelay \/ \E t \in timers : t[2] > 0
    /\ timers' = {<<t[1], IF t[2] > 0 THEN t[2] - 1 ELSE 0>> : t \in timers}
    /\ quiet' = IMin(quiet + 1, MaxDelay + 1)
    /\ UNCHANGED <<deck, polling, paperPage, paperData, hookKind, scrollMounted, container,
                   enabled, threshold, scrollEndDelay, listeners, scrollTimeoutRef,
                   lastScrollY, scrollState>>

\* a due timeout runs: setState((prev) => ({ ...prev, isScrolling: false }))
TimerFires ==
    /\ \E t \in timers :
          /\ t[2] = 0
          /\ timers' = timers \ {t}
    /\ scrollState' = IF scrollMounted THEN [scrollState EXCEPT !.isScrolling = FALSE]
                      ELSE scrollState
    /\ UNCHANGED <<deck, polling, paperPage, paperData, hookKind, scrollMounted, container,
                   enabled, threshold, scrollEndDelay, listeners, scrollTimeoutRef,
                   lastScrollY, quiet>>

\* the component unmounts: the cleanup runs
UnmountScroll ==
    /\ scrollMounted
    /\ scrollMounted' = FALSE
    /\ listeners' = {}
    /\ timers' = ScrollCleanup
    /\ UNCHANGED <<deck, polling, paperPage, paperData, hookKind, container, enabled,
                   threshold, scrollEndDelay, scrollTimeoutRef, lastScrollY, scrollState,
                   quiet>>

\* ------------------------------------------------------------- PaperPage
\* clearInterval(pollInterval)
ClearInterval(live, id) == live \ {id}

\* the cleanup of the polling effect in force, if it returned one
PageCleanup(live) == IF pageEffect = NoTimer THEN live ELSE ClearInterval(live, pageEffect[1])

\* setState and setJobId are committed while the intervals in live are running: when
\* state.type or jobId changed, the cleanup of the polling effect and then the effect
\* run; an unmounted page ignores the update
PageRender(newType, newJob, live) ==
    IF ~pageMounted
    THEN /\ pageIntervals' = live
         /\ UNCHANGED <<pageState, pageJobId, pageEffect, pageTimerCount>>
    ELSE /\ pageState' = newType
         /\ pageJobId' = newJob
         /\ IF newType = pageState /\ newJob = pageJobId
            THEN /\ pageIntervals' = live
                 /\ UNCHANGED <<pageEffect, pageTimerCount>>
            ELSE IF newType = "processing" /\ newJob # NoJob
                 THEN /\ pageTimerCount < MaxIntervals
                      /\ pageTimerCount' = pageTimerCount + 1
                      /\ pageEffect' = <<pageTimerCount + 1>>
                      /\ pageIntervals' = PageCleanup(live) \cup {pageTimerCount + 1}
                 ELSE /\ pageEffect' = NoTimer
                      /\ pageIntervals' = PageCleanup(live)
                      /\ UNCHANGED pageTimerCount

\* the page mounts: the initial-load effect calls loadPaper
MountPage(id) ==
    /\ ~pageMounted /\ pageState = "loading" /\ pageLoads = 0
    /\ pageMounted' = TRUE
    /\ pageArxivId' = id
    /\ pageState' = IF id = NoArxivId THEN "error" ELSE "loading"
    /\ pageLoads' = IF id = NoArxivId THEN 0 ELSE 1
    /\ UNCHANGED <<deck, polling, scrolling, paperData, pageJobId, pageIntervals, pageEffect,
                   pageTimerCount, pageInFlight, pageFetching, pageStarts, pageObserved>>

\* ErrorState onRetry: loadPaper up to its await (without an arXiv id it sets the
\* error state again, which changes nothing)
Retry ==
    /\ pageMounted /\ pageState = "error"
    /\ pageArxivId # NoArxivId
    /\ pageLoads < MaxInFlight
    /\ pageLoads' = pageLoads + 1
    /\ UNCHANGED <<deck, polling, scrolling, paperData, pageMounted, pageState, pageJobId,
                   pageIntervals, pageEffect, pageTimerCount, pageInFlight, pageFetching,
                   pageStarts, pageArxivId, pageObserved>>

\* loadPaper after its await: the paper, null, or a rejection
LoadResolves(outcome) ==
    /\ pageLoads > 0
    /\ pageLoads' = pageLoads - 1
    /\ PageRender(CASE outcome = "found" -> "ready"
                    [] outcome = "missing" -> "not_found"
                    [] OTHER -> "error", pageJobId, pageIntervals)
    /\ UNCHANGED <<deck, polling, scrolling, paperData, pageMounted, pageInFlight,
                   pageFetching, pageStarts, pageArxivId, pageObserved>>

\* NotFoundState onProcess: startProcessing up to its await
ClickProcess ==
    /\ pageMounted /\ pageState = "not_found"
    /\ pageArxivId # NoArxivId
    /\ pageStarts < MaxInFlight
    /\ pageStarts' = pageStarts + 1
    /\ UNCHANGED <<deck, polling, scrolling, paperData, pageMounted, pageState, pageJobId,
                   pageIntervals, pageEffect, pageTimerCount, pageInFlight, pageFetching,
                   pageLoads, pageArxivId, pageObserved>>

\* startProcessing after its await: setJobId and setState({ type: "processing" })
StartResolves(job) ==
    /\ pageStarts > 0
    /\ pageStarts' = pageStarts - 1
    /\ PageRender("processing", job, pageIntervals)
    /\ pageObserved' = (pageObserved /\ ~pageMounted)
    /\ UNCHANGED <<deck, polling, scrolling, paperData, pageMounted, pageInFlight,
                   pageFetching, pageLoads, pageArxivId>>

\* startProcessing: processArxivPaper rejects
StartThrows ==
    /\ pageStarts > 0
    /\ pageStarts' = pageStarts - 1
    /\ PageRender("error", pageJobId, pageIntervals)
    /\ UNCHANGED <<deck, polling, scrolling, paperData, pageMounted, pageInFlight,
                   pageFetching, pageLoads, pageArxivId, pageObserved>>

\* the interval fires: its callback runs up to await getProcessingStatus(jobId)
PageTick(id) ==
    /\ id \in pageIntervals
    /\ pageInFlight[id] < MaxInFlight
    /\ pageInFlight' = [pageInFlight EXCEPT ![id] = @ + 1]
    /\ UNCHANGED <<deck, polling, scrolling, paperData, pageMounted, pageState, pageJobId,
                   pageIntervals, pageEffect, pageTimerCount, pageFetching, pageLoads,
                   pageStarts, pageArxivId, pageObserved>>

\* the callback of interval id after its await, up to the next await or its end
StatusResolves(id, response) ==
    /\ pageInFlight[id] > 0
    /\ pageInFlight' = [pageInFlight EXCEPT ![id] = @ - 1]
    /\ CASE response = "completed" ->
               /\ PageRender(pageState, pageJobId, ClearInterval(pageIntervals, id))
               /\ pageFetching' = pageFetching + 1
               /\ pageObserved' = TRUE
         [] response = "failed" ->
               /\ PageRender("error", pageJobId, ClearInterval(pageIntervals, id))
               /\ pageObserved' = TRUE
               /\ UNCHANGED pageFetching
         [] OTHER ->
               /\ PageRender("processing", pageJobId, pageIntervals)
               /\ UNCHANGED <<pageFetching, pageObserved>>
    /\ UNCHANGED <<deck, polling, scrolling, paperData, pageMounted, pageLoads, pageStarts,
                   pageArxivId>>

\* getProcessingStatus rejects: the catch block logs the error
StatusThrows(id) ==
    /\ pageInFlight[id] > 0
    /\ pageInFlight' = [pageInFlight EXCEPT ![id] = @ - 1]
    /\ UNCHANGED <<deck, polling, scrolling, paperData, pageMounted, pageState, pageJobId,
                   pageIntervals, pageEffect, pageTimerCount, pageFetching, pageLoads,
                   pageStarts, pageArxivId, pageObserved>>

\* the completed branch after await getPaper(arxivId): the paper or null
PaperResolves(found) ==
    /\ pageFetching > 0
    /\ pageFetching' = pageFetching - 1
    /\ PageRender(IF found THEN "ready" ELSE "error", pageJobId, pageIntervals)
    /\ UNCHANGED <<deck, polling, scrolling, paperData, pageMounted, pageInFlight, pageLoads,
                   pageStarts, pageArxivId, pageObserved>>

\* the completed branch: getPaper rejects, the catch block logs the error
PaperThrows ==
    /\ pageFetching > 0
    /\ pageFetching' = pageFetching - 1
    /\ UNCHANGED <<deck, polling, scrolling, paperData, pageMounted, pageState, pageJobId,
                   pageIntervals, pageEffect, pageTimerCount, pageInFlight, pageLoads,
                   pageStarts, pageArxivId, pageObserved>>

\* the page unmounts: the cleanup of the polling effect runs
UnmountPage ==
    /\ pageMounted
    /\ pageMounted' = FALSE
    /\ pageIntervals' = PageCleanup(pageIntervals)
    /\ pageEffect' = NoTimer
    /\ UNCHANGED <<deck, polling, scrolling, paperData, pageState, pageJobId, pageTimerCount,
                   pageInFlight, pageFetching, pageLoads, pageStarts, pageArxivId,
                   pageObserved>>

\* ----------------------------------------------------------- usePaperData
\* fetchPaper of the render whose arxivId is id, up to its await
FetchPaper(id) ==
    IF id = NoArxivId
    THEN /\ paperState' = [status |-> "error", arxivId |-> NoArxivId, fetch |-> 0]
         /\ UNCHANGED <<paperFetches, paperLatest, paperIssued>>
    ELSE /\ paperIssued < MaxFetches
         /\ paperState' = [status |-> "loading", arxivId |-> NoArxivId, fetch |-> 0]
         /\ paperIssued' = paperIssued + 1
         /\ paperFetches' = paperFetches \cup {<<paperIssued + 1, id>>}
         /\ paperLatest' = [paperLatest EXCEPT ![id] = paperIssued + 1]

\* the auto-fetch effect of a render with this arxivId: setTimeout(fetchPaper, 0)
AutoFetchTimer(auto, id) == IF auto /\ id # NoArxivId THEN <<id>> ELSE NoTimer

\* a component that uses the hook mounts
MountPaperData(id, auto) ==
    /\ ~paperMounted /\ paperState.status = "idle" /\ paperIssued = 0
    /\ paperMounted' = TRUE
    /\ arxivId' = id
    /\ autoFetch' = auto
    /\ paperTimer' = AutoFetchTimer(auto, id)
    /\ paperCallbacks' = {}
    /\ UNCHANGED <<deck, polling, scrolling, paperPage, paperState, paperFetches,
                   paperLatest, paperIssued, paperStarts>>

\* a render with another arxivId: the cleanup clears the pending timer, the effect
\* sets a new one
ArxivIdChanges(id) ==
    /\ paperMounted
    /\ id # arxivId
    /\ arxivId' = id
    /\ paperTimer' = AutoFetchTimer(autoFetch, id)
    /\ paperCallbacks' = {}
    /\ UNCHANGED <<deck, polling, scrolling, paperPage, paperMounted, autoFetch, paperState,
                   paperFetches, paperLatest, paperIssued, paperStarts>>

\* the timer of the auto-fetch effect fires
AutoFetch ==
    /\ paperTimer # NoTimer
    /\ FetchPaper(paperTimer[1])
    /\ paperTimer' = NoTimer
    /\ paperCallbacks' = {}
    /\ UNCHANGED <<deck, polling, scrolling, paperPage, paperMounted, arxivId, autoFetch,
                   paperStarts>>

\* refetch of the last render
refetch ==
    /\ paperMounted
    /\ FetchPaper(arxivId)
    /\ paperCallbacks' = {}
    /\ UNCHANGED <<deck, polling, scrolling, paperPage, paperMounted, arxivId, autoFetch,
                   paperTimer, paperStarts>>

\* fetchPaper after its await: the paper, null, or a rejection; an unmounted
\* component ignores the setState
PaperArrives(f, outcome) ==
    /\ f \in paperFetches
    /\ paperFetches' = paperFetches \ {f}
    /\ paperState' =
           IF ~paperMounted THEN paperState
           ELSE CASE outcome = "found" ->
                         [status |-> "ready", arxivId |-> f[2], fetch |-> f[1]]
                  [] outcome = "missing" ->
                         [status |-> "not_found", arxivId |-> f[2], fetch |-> f[1]]
                  [] OTHER -> [status |-> "error", arxivId |-> NoArxivId, fetch |-> 0]
    /\ paperCallbacks' = CASE outcome = "found" -> {"onSuccess"}
                           [] outcome = "missing" -> {"onNotFound"}
                           [] OTHER -> {"onError"}
    /\ UNCHANGED <<deck, polling, scrolling, paperPage, paperMounted, arxivId, autoFetch,
                   paperTimer, paperLatest, paperIssued, paperStarts>>

\* startProcessing of the last render, up to its await
StartPaperProcessing ==
    /\ paperMounted
    /\ arxivId # NoArxivId
    /\ paperStarts < MaxInFlight
    /\ paperStarts' = paperStarts + 1
    /\ paperCallbacks' = {}
    /\ UNCHANGED <<deck, polling, scrolling, paperPage, paperMounted, arxivId, autoFetch,
                   paperState, paperTimer, paperFetches, paperLatest, paperIssued>>

\* startProcessing after its await: the response is returned, or the rejection
\* becomes the error state
PaperProcessingSettles(ok) ==
    /\ paperStarts > 0
    /\ paperStarts' = paperStarts - 1
    /\ paperState' = IF ok \/ ~paperMounted THEN paperState
                     ELSE [status |-> "error", arxivId |-> NoArxivId, fetch |-> 0]
    /\ paperCallbacks' = IF ok THEN {} ELSE {"onError"}
    /\ UNCHANGED <<deck, polling, scrolling, paperPage, paperMounted, arxivId, autoFetch,
                   paperTimer, paperFetches, paperLatest, paperIssued>>

\* the component unmounts: the cleanup clears the pending timer
UnmountPaperData ==
    /\ paperMounted
    /\ paperMounted' = FALSE
    /\ paperTimer' = NoTimer
    /\ paperCallbacks' = {}
    /\ UNCHANGED <<deck, polling, scrolling, paperPage, arxivId, autoFetch, paperState,
                   paperFetches, paperLatest, paperIssued, paperStarts>>

\* events may queue up before React renders
Next ==
    \/ \E v \in QueuedValues : Scroll(v)
    \/ \E v \in QueuedValues : SpringFrame(v)
    \/ Render

Spec == Init /\ [][Next]_vars

\* every event is rendered before the next one
\* the page is scrolled while the spring is at rest, and the spring then comes to
\* rest at the new scroll position
ScrollAtRest == \E v \in ScrollValues : smoothProgress = scrollYProgress /\ ScrollRendered(v)
SpringSettles == FrameRendered(scrollYProgress)

NextDeck == ScrollAtRest \/ SpringSettles

SpecDeck == InitDeck /\ [][NextDeck]_vars

\* the spring alone: a frame may carry any value, also one outside [0, 1] when the
\* page rubber-bands past an end of the track
SpringTravels ==
    \E v \in ScrollValues \cup OverscrollValues \cup ApproachValues : FrameRendered(v)

SpecSpring == InitDeck /\ [][SpringTravels]_vars

\* the cards of the deck mount, unmount and resize
NextObserver ==
    \/ \E i \in Cards(N), h \in Heights : MountCard(i, h)
    \/ \E i \in Cards(N) : UnmountCard(i)
    \/ \E i \in Cards(N), h \in Heights : EffectRerun(i, h)
    \/ \E i \in Cards(N), h \in Heights : ResizeObserved(i, h)

SpecObserver == Init /\ [][NextObserver]_vars

\* the page that polls the processing status: its deck is left alone
InitPage == InitFrom(1, 1)

NextPolling ==
    \/ \E j \in Jobs : startPolling(j)
    \/ Tick
    \/ \E j \in Jobs, r \in Responses : Respond(j, r)
    \/ \E j \in Jobs : RequestThrows(j)
    \/ RenderHook
    \/ stopPolling
    \/ reset
    \/ UnmountHook

SpecPolling == InitPage /\ [][NextPolling]_vars

\* the deck of a paper without sections (sections = []), next to a one-card deck
InitEmpty == InitFrom(0, 1)

NextEmpty ==
    \/ \E v \in QueuedValues \cup OverscrollValues : Scroll(v)
    \/ \E v \in ScrollValues : SpringFrame(v)
    \/ Render

SpecEmpty == InitEmpty /\ [][NextEmpty]_vars

SpringMoves == \E v \in CoarseValues : FrameRendered(v)
ReportHeight == \E i \in Cards(N), h \in Heights : handleContentHeight(i, h)

NextContent == SpringMoves \/ ReportHeight

SpecContent == Init /\ [][NextContent]_vars

\* the scroll handler of CardStack alone, events queueing up before React renders
NextStack ==
    \/ \E v \in ScrollValues : Scroll(v)
    \/ Render

SpecStack == InitDeck /\ [][NextStack]_vars

\* effects run in the browser only
InitBrowser == InitPage /\ window # Undefined

\* a page that tracks its scroll position with one of the two scroll hooks
NextScroll ==
    \/ \E kind \in {"window", "container"}, en \in BOOLEAN, th \in Thresholds,
          delay \in Delays, cont \in BOOLEAN, y \in ScrollOffsets, m \in MaxScrolls :
          MountScroll(kind, en, th, delay, cont, y, m)
    \/ \E en \in BOOLEAN, th \in Thresholds, delay \in Delays,
          y \in ScrollOffsets, m \in MaxScrolls : OptionsChange(en, th, delay, y, m)
    \/ \E y \in ScrollOffsets, m \in MaxScrolls : ScrollEvent(y, m)
    \/ \E y \in ScrollOffsets, m \in MaxScrolls : ResizeEvent(y, m)
    \/ TimePasses
    \/ TimerFires
    \/ UnmountScroll

SpecScroll == InitBrowser /\ [][NextScroll]_vars

\* the paper page: loading, starting the processing and polling its status
NextPaperPage ==
    \/ \E id \in ArxivIds \cup {NoArxivId} : MountPage(id)
    \/ Retry
    \/ \E outcome \in {"found", "missing", "throws"} : LoadResolves(outcome)
    \/ ClickProcess
    \/ \E j \in Jobs : StartResolves(j)
    \/ StartThrows
    \/ \E id \in IntervalIds : PageTick(id)
    \/ \E id \in IntervalIds, r \in Responses : StatusResolves(id, r)
    \/ \E id \in IntervalIds : StatusThrows(id)
    \/ \E found \in BOOLEAN : PaperResolves(found)
    \/ PaperThrows
    \/ UnmountPage

SpecPaperPage == InitBrowser /\ [][NextPaperPage]_vars

\* a component that loads a paper with usePaperData
NextPaperData ==
    \/ \E id \in ArxivIds \cup {NoArxivId}, auto \in BOOLEAN : MountPaperData(id, auto)
    \/ \E id \in ArxivIds \cup {NoArxivId} : ArxivIdChanges(id)
    \/ AutoFetch
    \/ refetch
    \/ \E f \in paperFetches, outcome \in {"found", "missing", "throws"} :
          PaperArrives(f, outcome)
    \/ StartPaperProcessing
    \/ \E ok \in BOOLEAN : PaperProcessingSettles(ok)
    \/ UnmountPaperData

SpecPaperData == InitBrowser /\ [][NextPaperData]_vars

\* ------------------------------------------------------------ properties
InRange(v) == RLe(Zero, v) /\ RLe(v, One)
IsNumber(x) == x[1] \in Int /\ x[2] \in Nat /\ x[2] > 0
Clamp(x, lo, hi) == IF x < lo THEN lo ELSE IF x > hi THEN hi ELSE x
\* clamp(floor(v * n), 0, n - 1) in integer arithmetic
ClampedFloor(v, n) == Clamp((v[1] * n) \div v[2], 0, n - 1)
\* the deck state of card i at the current spring value
DeckState(i) == getDeckState(i, N, smoothProgress)

\* C1: for every N >= 1 and v in [0,1] the active index of getDeckState and of the
\* scroll handler of CardStack is clamp(floor(v*N), 0, N-1), and it is
\* non-decreasing in v.
C1_ActiveIndexClampedMonotone ==
    (InRange(smoothProgress) /\ InRange(scrollYProgress)) =>
        /\ \A i \in Cards(N) : DeckState(i).currentActive = ClampedFloor(smoothProgress, N)
        /\ NewActive(scrollYProgress, N) = ClampedFloor(scrollYProgress, N)
        /\ Committed(activeIndex, activeIndexQ) = ClampedFloor(scrollYProgress, N)
        /\ \A v2 \in ScrollValues :
              /\ RLe(smoothProgress, v2) =>
                    CurrentActive(smoothProgress, N) <= CurrentActive(v2, N)
              /\ RLe(scrollYProgress, v2) =>
                    NewActive(scrollYProgress, N) <= NewActive(v2, N)

\* the end of the track: the cap at N - 1 decides the index
C1_Witness ==
    /\ N >= 2
    /\ scrollYProgress = One /\ smoothProgress = One
    /\ activeIndex = N - 1
    /\ \A i \in Cards(N) : DeckState(i).currentActive = N - 1

\* C2: for every N >= 1 and v in [0,1] exactly one card has rawDeckPos = 0; every
\* other card is exited (rawDeckPos < 0) or queued (rawDeckPos > 0); and every
\* attribute of every card is a defined number taken from the branch of its class.
C2_OneActiveCardAttributesDefined ==
    InRange(smoothProgress) =>
        /\ Cardinality({i \in Cards(N) : DeckState(i).rawDeckPos = 0}) = 1
        /\ \A i \in Cards(N) : \A s \in {DeckState(i)} :
              \A vw \in {RInt(InnerWidth(window))} :
                  /\ s.rawDeckPos = i - ClampedFloor(smoothProgress, N)
                  /\ IsNumber(cardX[i]) /\ IsNumber(cardY[i]) /\ IsNumber(cardScale[i])
                  /\ IsNumber(cardOpacity[i]) /\ IsNumber(cardRotate[i])
                  /\ IsNumber(contentY[i]) /\ zIndex[i] \in Nat
                  /\ s.rawDeckPos < 0 =>
                        /\ cardX[i] = RMul(Rat(-11, 10), vw)
                        /\ cardY[i] = Zero /\ cardOpacity[i] = Zero
                        /\ cardRotate[i] = Zero /\ zIndex[i] = 0
                  /\ s.rawDeckPos > 0 =>
                        /\ RLt(Zero, cardX[i]) /\ RLt(Zero, cardY[i])
                        /\ RLe(Rat(1, 4), cardOpacity[i]) /\ RLt(cardOpacity[i], One)
                        /\ cardRotate[i] = Zero /\ zIndex[i] = N - s.rawDeckPos
                  /\ s.rawDeckPos = 0 =>
                        /\ RLe(cardX[i], Zero) /\ cardY[i] = Zero
                        /\ RLt(Zero, cardOpacity[i]) /\ RLe(cardOpacity[i], One)
                        /\ zIndex[i] \in {N, N + 1}

\* a deck with an exited, an active and a queued card
C2_Witness ==
    /\ smoothProgress # Zero
    /\ \E i, j, k \in Cards(N) :
          /\ DeckState(i).rawDeckPos < 0 /\ cardOpacity[i] = Zero
          /\ DeckState(j).rawDeckPos = 0 /\ zIndex[j] = N
          /\ DeckState(k).rawDeckPos > 0 /\ zIndex[k] = N - DeckState(k).rawDeckPos

\* C3: exitProgress is 0 outside the exit phase of the active card's segment and
\* (v - activeExitStart) / (activeSegEnd - activeExitStart) inside it, with
\* activeExitStart = (currentActive + 0.75) / N; it lies in [0,1); for N = 5 it
\* is 0 at v = 0.1 and 0.8 at v = 0.19, where card 0 has opacity 0.2.
C3_ExitProgressRamp ==
    InRange(smoothProgress) =>
        \A v \in {smoothProgress} : \A ca \in {ClampedFloor(smoothProgress, N)} :
        \A e \in {DeckState(0).exitProgress} :
        LET activeExitStart == <<4 * ca + 3, 4 * N>>
            activeSegEnd == <<ca + 1, N>>
            inExit == RLe(activeExitStart, v) /\ RLt(v, activeSegEnd)
        IN  /\ ~inExit => e = Zero
            /\ inExit => e = RDiv(RSub(v, activeExitStart),
                                   RSub(activeSegEnd, activeExitStart))
            /\ inExit => e = RSub(RMul(RInt(4), RSub(RMul(v, RInt(N)), RInt(ca))), RInt(3))
            /\ RLe(Zero, e) /\ RLt(e, One)
            /\ \A i \in Cards(N) : DeckState(i).exitProgress = e
            /\ (N = 5 /\ v = Rat(1, 10)) => e = Zero
            /\ (N = 5 /\ v = Rat(19, 100)) => (e = Rat(4, 5) /\ cardOpacity[0] = Rat(1, 5))

\* the scenario of the exit phase: N = 5, v = 0.19
C3_Witness ==
    /\ N = 5 /\ smoothProgress = Rat(19, 100)
    /\ DeckState(0).exitProgress = Rat(4, 5)
    /\ cardOpacity[0] = Rat(1, 5)

NothingQueued == activeIndexQ = NoUpdate /\ \A i \in Cards(N) : zIndexQ[i] = NoUpdate

\* C4: the deck is stateless in v: once React has rendered every queued update,
\* each card's z-index, the deck's activeIndex and the motion values are the
\* pure functions of the most recent scroll values, whatever events came before.
C4_StatelessInV ==
    NothingQueued =>
        /\ activeIndex = NewActive(scrollYProgress, N)
        /\ \A i \in Cards(N) :
              /\ zIndex[i] = ZOf(i, N, smoothProgress)
              /\ cardX[i] = CardXOf(i, N, smoothProgress, window)
              /\ cardY[i] = CardYOf(i, N, smoothProgress)
              /\ cardScale[i] = CardScaleOf(i, N, smoothProgress)
              /\ cardOpacity[i] = CardOpacityOf(i, N, smoothProgress)
              /\ cardRotate[i] = CardRotateOf(i, N, smoothProgress)

\* C5: active-index reporting is edge-triggered: a scroll tick queues an update
\* only when its index differs from the reported one, and a tick that stays in
\* the segment of the previous tick causes no state update and no call of
\* onProgressChange.
C5_EdgeTriggered ==
    [][ /\ (activeIndexQ' # activeIndexQ /\ activeIndexQ' # NoUpdate) =>
              (activeIndexQ'[1] = NewActive(scrollYProgress', N)
                   /\ activeIndexQ'[1] # activeIndex)
        /\ invoked' => activeIndex' # activeIndex
        /\ (scrollYProgress' # scrollYProgress
              /\ NewActive(scrollYProgress', N) = NewActive(scrollYProgress, N)) =>
              (activeIndexQ' = activeIndexQ /\ activeIndex' = activeIndex /\ ~invoked')
      ]_vars

\* C6 as stated: the listener has received activeIndex / (N - 1) when N > 1 and
\* the value 0 when N <= 1, always a value in [0,1].
C6_ProgressOrZero ==
    /\ N > 1 => progress = <<Rat(activeIndex, N - 1)>>
    /\ N <= 1 => progress = <<Zero>>
    /\ progress # NoCall => InRange(progress[1])

\* C6 amended: the listener has received activeIndex / (N - 1) when N > 1, a value
\* in [0,1], and is never called when N <= 1.
C6_ProgressOrNoCall ==
    /\ N > 1 => (progress # NoCall /\ RMul(progress[1], RInt(N - 1)) = RInt(activeIndex)
                     /\ InRange(progress[1]))
    /\ N <= 1 => (progress = NoCall /\ ~invoked)

\* the listener is told that the deck is half way through
C6_Witness == N = 3 /\ invoked /\ progress = <<Rat(1, 2)>> /\ activeIndex = 1

\* C7: whenever the transform runs, the inner content offset of card i is
\* -min(localProgress / 0.75, 1) * max(0, h - vh) while v is inside the card's
\* segment and 0 outside it; it lies in [-max(0, h - vh), 0] and is 0 when h <= vh
\* (also for a missing or negative h).
C7_ContentOffset ==
    [][ smoothProgress' # smoothProgress =>
          \A i \in Cards(N) :
              LET v == smoothProgress'
                  h == contentHeights[i]
                  vh == CardViewportHeight(window)
                  maxScroll == IF h - vh > 0 THEN h - vh ELSE 0
                  localProgress == RSub(RMul(v, RInt(N)), RInt(i))
                  inSegment == RLe(Zero, localProgress) /\ RLt(localProgress, One)
                  scaled == RMul(localProgress, Rat(4, 3))
                  phase == IF RLt(One, scaled) THEN One ELSE scaled
              IN  /\ inSegment => contentY'[i] = RNeg(RMul(phase, RInt(maxScroll)))
                  /\ ~inSegment => contentY'[i] = Zero
                  /\ RLe(RInt(-maxScroll), contentY'[i]) /\ RLe(contentY'[i], Zero)
                  /\ h <= vh => contentY'[i] = Zero
      ]_vars

\* an overflowing card part of the way through its content phase
C7_Witness ==
    \E i \in Cards(N) :
        LET maxScroll == contentHeights[i] - CardViewportHeight(window)
            localProgress == RSub(RMul(smoothProgress, RInt(N)), RInt(i))
        IN  /\ maxScroll > 0
            /\ /\ RLt(Zero, localProgress) /\ RLt(localProgress, Rat(3, 4))
                   /\ contentY[i] = RNeg(RMul(RMul(localProgress, Rat(4, 3)), RInt(maxScroll)))
                   /\ RLt(contentY[i], Zero) /\ RLt(RInt(-maxScroll), contentY[i])

\* C8: exited cards have z-index 0; active and queued cards have distinct
\* positive z-indices that strictly decrease with rawDeckPos; an exiting card has
\* z-index N + 1, above every other card.
C8_StackingOrder ==
    InRange(smoothProgress) =>
        \A i \in Cards(N) : \A si \in {DeckState(i)} :
            /\ si.rawDeckPos < 0 => zIndex[i] = 0
            /\ si.rawDeckPos >= 0 => zIndex[i] > 0
            /\ \A j \in Cards(N) :
                  /\ (si.rawDeckPos >= 0 /\ DeckState(j).rawDeckPos > si.rawDeckPos) =>
                        zIndex[i] > zIndex[j]
                  /\ (si.rawDeckPos = 0 /\ RLt(Zero, si.exitProgress) /\ j # i) =>
                        (zIndex[i] = N + 1 /\ zIndex[j] < zIndex[i])

\* a card exits above a deck that holds exited and queued cards
C8_Witness ==
    \E i, j, k \in Cards(N) :
        /\ DeckState(i).rawDeckPos < 0 /\ zIndex[i] = 0
        /\ DeckState(j).rawDeckPos = 0 /\ RLt(Zero, DeckState(j).exitProgress)
        /\ zIndex[j] = N + 1
        /\ DeckState(k).rawDeckPos > 1 /\ zIndex[k] = N - DeckState(k).rawDeckPos

\* C9 as stated: the horizontal offset is 0 for a queued card with no exit in
\* progress, -exitProgress * 1.1 * viewportWidth for the exiting card and
\* -1.1 * viewportWidth for an exited card.
C9_QueuedOffsetZero ==
    InRange(smoothProgress) =>
        \A i \in Cards(N) : \A s \in {DeckState(i)} : \A vw \in {InnerWidth(window)} :
                /\ (s.rawDeckPos > 0 /\ s.exitProgress = Zero) => cardX[i] = Zero
                /\ (s.rawDeckPos = 0 /\ RLt(Zero, s.exitProgress)) =>
                      cardX[i] = RNeg(RMul(s.exitProgress, Rat(11 * vw, 10)))
                /\ s.rawDeckPos < 0 => cardX[i] = Rat(-11 * vw, 10)

\* C9 amended: the horizontal offset is rawDeckPos * STACK_GAP_X for a card in the
\* deck with no exit in progress (0 for the active card only),
\* (rawDeckPos - exitProgress) * STACK_GAP_X for a queued card while the active
\* card exits, -exitProgress * 1.1 * viewportWidth for the exiting card and
\* -1.1 * viewportWidth for an exited card.
C9_QueuedOffsetByGap ==
    InRange(smoothProgress) =>
        \A i \in Cards(N) : \A s \in {DeckState(i)} : \A vw \in {InnerWidth(window)} :
                /\ (s.rawDeckPos >= 0 /\ s.exitProgress = Zero) =>
                      cardX[i] = RInt(s.rawDeckPos * 12)
                /\ (s.rawDeckPos > 0 /\ RLt(Zero, s.exitProgress)) =>
                      cardX[i] = RMul(RSub(RInt(s.rawDeckPos), s.exitProgress), RInt(12))
                /\ (s.rawDeckPos = 0 /\ RLt(Zero, s.exitProgress)) =>
                      cardX[i] = RNeg(RMul(s.exitProgress, Rat(11 * vw, 10)))
                /\ s.rawDeckPos < 0 => cardX[i] = Rat(-11 * vw, 10)

\* a card slides out while a queued card shifts forward and another has exited
C9_Witness ==
    \E i, j, k \in Cards(N) :
        /\ DeckState(i).rawDeckPos < 0 /\ cardX[i] = Rat(-11 * InnerWidth(window), 10)
        /\ DeckState(j).rawDeckPos = 0 /\ RLt(Zero, DeckState(j).exitProgress)
        /\ RLt(cardX[j], Zero)
        /\ DeckState(k).rawDeckPos = 2
        /\ RLt(RInt(12), cardX[k]) /\ RLt(cardX[k], RInt(24))

\* C10: a queued card at deck position k > 0 with no exit in progress has vertical
\* offset 10 * k, scale max(0.88, 1 - 0.03 * k) and opacity max(0.25, 1 - 0.15 * k):
\* 20, 0.94 and 0.70 for k = 2; the scale of a queued card is never below 0.88
\* and its opacity never below 0.25.
C10_QueuedCardLayout ==
    InRange(smoothProgress) =>
        \A i \in Cards(N) : \A s \in {DeckState(i)} : \A k \in {s.rawDeckPos} :
                /\ (k > 0 /\ s.exitProgress = Zero) =>
                      /\ cardY[i] = RInt(10 * k)
                      /\ cardScale[i] = (IF k >= 4 THEN Rat(88, 100) ELSE Rat(100 - 3 * k, 100))
                      /\ cardOpacity[i] = (IF k >= 5 THEN Rat(25, 100)
                                                   ELSE Rat(100 - 15 * k, 100))
                      /\ k = 2 => (cardY[i] = RInt(20) /\ cardScale[i] = Rat(94, 100)
                                      /\ cardOpacity[i] = Rat(70, 100))
                /\ k > 0 => (RLe(Rat(88, 100), cardScale[i])
                                /\ RLe(Rat(25, 100), cardOpacity[i]))

\* a deck deep enough for both floors to apply, scrolled into its first card
C10_Witness ==
    /\ smoothProgress # Zero
    /\ \E i, j \in Cards(N) :
          /\ DeckState(i).rawDeckPos = 2 /\ DeckState(i).exitProgress = Zero
          /\ cardY[i] = RInt(20) /\ cardScale[i] = Rat(47, 50) /\ cardOpacity[i] = Rat(7, 10)
          /\ DeckState(j).rawDeckPos = 6
          /\ cardScale[j] = Rat(22, 25) /\ cardOpacity[j] = Rat(1, 4)

\* v * N - i: the progress of the spring through the segment of card i
LocalProgress(i) == RSub(RMul(smoothProgress, RInt(N)), RInt(i))

\* C11: while card i is the exiting card (local progress l in (0.75, 1), exit
\* progress e = 4l - 3 > 0) its opacity is 1 - e, its scale 1 - 0.05 * e in
\* [0.95, 1], its rotation -3 * e in [-3, 0] and its vertical offset 0; every other
\* card has rotation 0 and every exited card has opacity 0.
C11_ExitingCardAttributes ==
    \A i \in Cards(N) : \A l \in {LocalProgress(i)} : \A s \in {DeckState(i)} :
        \A e \in {RSub(RMul(RInt(4), l), RInt(3))} :
        \A exiting \in {RLt(Rat(3, 4), l) /\ RLt(l, One)} :
            /\ exiting =>
                  /\ i = s.currentActive /\ s.exitProgress = e
                  /\ cardOpacity[i] = RSub(One, e)
                  /\ cardScale[i] = RSub(One, RDiv(e, RInt(20)))
                  /\ RLe(Rat(95, 100), cardScale[i]) /\ RLe(cardScale[i], One)
                  /\ cardRotate[i] = RNeg(RMul(RInt(3), e))
                  /\ RLe(RInt(-3), cardRotate[i]) /\ RLe(cardRotate[i], Zero)
                  /\ cardY[i] = Zero
            /\ ~exiting => cardRotate[i] = Zero
            /\ s.rawDeckPos < 0 => cardOpacity[i] = Zero

\* a card past the first one is half way or more through its exit, behind it an
\* exited card
C11_Witness ==
    \E i \in Cards(N) :
        /\ i >= 1 /\ DeckState(i).currentActive = i
        /\ RLe(Rat(1, 2), DeckState(i).exitProgress)
        /\ cardRotate[i] = RMul(RInt(-3), DeckState(i).exitProgress)
        /\ RLt(cardRotate[i], RInt(-1)) /\ RLt(cardOpacity[i], Rat(1, 2))
        /\ DeckState(i - 1).rawDeckPos < 0 /\ cardOpacity[i - 1] = Zero

\* C12: a card that is active and in its content phase (rawDeckPos = 0 and
\* exitProgress = 0, which is every card whose local progress is in [0, 0.75]) has
\* offsetX 0, offsetY 0, scale 1, opacity 1 and rotation 0; at v = 0 this card is
\* card 0, for every N >= 1.
C12_ActiveContentPhase ==
    \A i \in Cards(N) : \A s \in {DeckState(i)} : \A l \in {LocalProgress(i)} :
        /\ (RLe(Zero, l) /\ RLe(l, Rat(3, 4))) =>
              (s.rawDeckPos = 0 /\ s.exitProgress = Zero)
        /\ (smoothProgress = Zero /\ i = 0) => (s.rawDeckPos = 0 /\ s.exitProgress = Zero)
        /\ (s.rawDeckPos = 0 /\ s.exitProgress = Zero) =>
              /\ cardX[i] = Zero /\ cardY[i] = Zero
              /\ cardScale[i] = One /\ cardOpacity[i] = One
              /\ cardRotate[i] = Zero

\* a later card is being read while the spring has come back to it
C12_Witness ==
    \E i \in Cards(N) :
        /\ i >= 2 /\ RLt(Zero, LocalProgress(i)) /\ RLt(LocalProgress(i), Rat(3, 4))
        /\ DeckState(i).rawDeckPos = 0 /\ DeckState(i).exitProgress = Zero
        /\ cardX[i] = Zero /\ cardScale[i] = One /\ cardOpacity[i] = One
        /\ zIndex[i] = N

\* C13: at v = 1 cards 0 .. N-2 have the exited attributes (opacity 0, offsetX
\* -1.1 * viewportWidth, z-index 0) and the last card has the attributes of the
\* end of its exit animation, the limits of its attributes as v approaches 1 from
\* below (exitProgress -> 1: opacity 0, offsetX -1.1 * viewportWidth, scale 0.95).
C13_EndOfTrackExited ==
    smoothProgress = One =>
        \A i \in Cards(N) : \A vw \in {InnerWidth(window)} :
            /\ i < N - 1 => (cardOpacity[i] = Zero /\ cardX[i] = Rat(-11 * vw, 10)
                                /\ zIndex[i] = 0)
            /\ i = N - 1 => (cardOpacity[i] = Zero /\ cardX[i] = Rat(-11 * vw, 10)
                                /\ cardScale[i] = Rat(95, 100))

\* C14: for every N >= 1, every card and every v, also past either end of the
\* track, the opacity lies in [0, 1] and the scale in [0.88, 1].
C14_OpacityAndScaleInRange ==
    \A i \in Cards(N) :
        /\ RLe(Zero, cardOpacity[i]) /\ RLe(cardOpacity[i], One)
        /\ RLe(Rat(88, 100), cardScale[i]) /\ RLe(cardScale[i], One)

\* the page is pulled past the top of the track: every card is drawn one or more
\* positions down the deck, the deepest ones at both floors
C14_Witness ==
    /\ RLt(smoothProgress, Zero) /\ N = MaxN
    /\ RLt(cardOpacity[0], One) /\ RLt(cardScale[0], One)
    /\ cardOpacity[N - 1] = Rat(1, 4) /\ cardScale[N - 1] = Rat(88, 100)

\* C15: the currentActive of getDeckState is clamp(floor(v*N), 0, N-1) for every v:
\* 0 for v < 0 (card 0 stays active with rawDeckPos 0) and N-1 for v > 1, so
\* exactly one card is active for out-of-range v as well.
C15_CurrentActiveClamped ==
    /\ \A i \in Cards(N) : DeckState(i).currentActive = ClampedFloor(smoothProgress, N)
    /\ RLt(smoothProgress, Zero) => DeckState(0).rawDeckPos = 0
    /\ RLt(One, smoothProgress) => DeckState(N - 1).rawDeckPos = 0
    /\ Cardinality({i \in Cards(N) : DeckState(i).rawDeckPos = 0}) = 1

\* C16: with an empty deck (N = 0) no per-card transform exists, no reported or
\* rendered value is the result of a division by N, and whatever scroll events
\* arrive activeIndex stays 0, no update is queued and onProgressChange is never
\* invoked.
C16_EmptyDeckNoOp ==
    N = 0 =>
        /\ activeIndex = 0 /\ activeIndexQ = NoUpdate
        /\ progress = NoCall /\ ~invoked
        /\ NewActive(scrollYProgress, N) = -1
        /\ \A f \in {cardX, cardY, cardScale, cardOpacity, cardRotate, contentY, zIndex,
                      zIndexQ, contentHeights} : DOMAIN f = {}
        /\ IsNumber(scrollYProgress) /\ IsNumber(smoothProgress)

\* the empty deck's page has been scrolled to its end and the spring follows
C16_Witness ==
    /\ N = 0 /\ scrollYProgress = One /\ RLt(Zero, smoothProgress)
    /\ activeIndex = 0 /\ progress = NoCall

\* the phase of card i at spring value v: 0 queued, 1 active reading, 2 active
\* exiting, 3 exited
PhaseOf(i, s) ==
    IF s.rawDeckPos > 0 THEN 0
    ELSE IF s.rawDeckPos < 0 THEN 3
    ELSE IF RLt(Zero, s.exitProgress) THEN 2 ELSE 1
Phase(i, v) == PhaseOf(i, getDeckState(i, N, v))

\* C17: while v moves within [0, 1], a step that does not decrease v moves no
\* card's phase backward through queued -> reading -> exiting -> exited and a
\* step that does not increase v moves none forward; a card is exiting only at
\* local progress >= 0.75 and is exited from the end of its segment on.
C17_PhasesInOrder ==
    [][ (InRange(smoothProgress) /\ InRange(smoothProgress')) =>
          \A i \in Cards(N) :
              \A p \in {Phase(i, smoothProgress)} : \A q \in {Phase(i, smoothProgress')} :
              \A l \in {RSub(RMul(smoothProgress', RInt(N)), RInt(i))} :
                  /\ RLe(smoothProgress, smoothProgress') => p <= q
                  /\ RLe(smoothProgress', smoothProgress) => q <= p
                  /\ q = 2 => RLe(Rat(3, 4), l)
                  /\ RLe(One, l) <=> q = 3
      ]_vars

RAbs(a) == <<Abs(a[1]), a[2]>>
\* b = k / N for some 0 < k < N
IsBoundary(b) == (b[1] * N) % b[2] = 0 /\ RLt(Zero, b) /\ RLt(b, One)
\* a lies in the exit phase that ends at the boundary b
NearBelow(a, b) == RLt(a, b) /\ RLe(RMul(RSub(b, a), RInt(4 * N)), One)

\* C18: at every interior segment boundary b = k/N the attributes equal their
\* limits from below.  On a step between b and a value a in the exit phase below
\* it, in either direction, offsetX, offsetY, scale and opacity of every card
\* change by at most 1.1*vw*d, 10*d, 0.05*d and d, where d = (b - a) * 4N is the
\* part of the exit phase between a and b; at b card k-1 has its exited values,
\* card k is at deck position 0 (offset 0, scale 1, opacity 1), every later card is
\* on its integer deck position, and exactly one card is active.
C18_ContinuousAtBoundaries ==
    [][ \A a \in {smoothProgress} : \A b \in {smoothProgress'} :
        \A vw \in {Rat(11 * InnerWidth(window), 10)} :
          /\ ((IsBoundary(b) /\ NearBelow(a, b)) \/ (IsBoundary(a) /\ NearBelow(b, a))) =>
                \A d \in {RMul(RAbs(RSub(b, a)), RInt(4 * N))} : \A i \in Cards(N) :
                    /\ RLe(RAbs(RSub(cardX'[i], cardX[i])), RMul(vw, d))
                    /\ RLe(RAbs(RSub(cardY'[i], cardY[i])), RMul(RInt(10), d))
                    /\ RLe(RAbs(RSub(cardScale'[i], cardScale[i])), RMul(Rat(5, 100), d))
                    /\ RLe(RAbs(RSub(cardOpacity'[i], cardOpacity[i])), d)
          /\ IsBoundary(b) =>
                \A k \in {(b[1] * N) \div b[2]} :
                    /\ cardX'[k - 1] = RNeg(vw) /\ cardY'[k - 1] = Zero
                    /\ cardScale'[k - 1] = Rat(95, 100) /\ cardOpacity'[k - 1] = Zero
                    /\ cardX'[k] = Zero /\ cardY'[k] = Zero
                    /\ cardScale'[k] = One /\ cardOpacity'[k] = One
                    /\ \A j \in Cards(N) : j > k =>
                          /\ cardX'[j] = RInt(12 * (j - k)) /\ cardY'[j] = RInt(10 * (j - k))
                          /\ cardScale'[j] = RMax(Rat(88, 100), Rat(100 - 3 * (j - k), 100))
                          /\ cardOpacity'[j] = RMax(Rat(1, 4), Rat(100 - 15 * (j - k), 100))
                    /\ {i \in Cards(N) : getDeckState(i, N, b).rawDeckPos = 0} = {k}
      ]_vars

\* the spring rests on the second boundary of a three-card deck
C18_Witness ==
    /\ N = 3 /\ smoothProgress = Rat(2, 3)
    /\ cardX[1] = Rat(-11 * InnerWidth(window), 10) /\ cardOpacity[1] = Zero
    /\ cardX[2] = Zero /\ cardY[2] = Zero /\ cardScale[2] = One /\ cardOpacity[2] = One

\* C19: a mounted StackCard has exactly one connected ResizeObserver and an
\* unmounted one has none (also after the effect has re-run), and every
\* content-height report comes from a card that is mounted: none is made for a
\* card after it unmounted.
C19_ObserversDeregistered ==
    /\ \A i \in Cards(N) : observers[i] = (IF mounted[i] THEN 1 ELSE 0)
    /\ reporter # NoCard => (mounted[reporter[1]] /\ observers[reporter[1]] = 1)
    /\ \A i \in Cards(N), h \in Heights : ENABLED ResizeObserved(i, h) => mounted[i]

\* one card has unmounted after reporting an overflowing height; another, still
\* mounted, has just reported
C19_Witness ==
    \E i, j \in Cards(N) :
        /\ ~mounted[i] /\ observers[i] = 0 /\ contentHeights[i] = 1500
        /\ mounted[j] /\ observers[j] = 1 /\ reporter = <<j>>

\* C20: startPolling(j) issues a status request for j at once, also on a freshly
\* mounted idle hook, and every status request issued after startPolling(j)
\* queries j, the job id passed most recently.
C20_PollsStartedJob ==
    [][ /\ \A j \in Jobs : startPolling(j) => requested' = j
        /\ requested' # NoJob => requested' = started'
      ]_vars

\* C21: polling started by startPolling always terminates: while the interval
\* runs, each of its ticks is an attempt (the poll it calls passes its guard and
\* counts), so the count passes maxAttempts; on the attempt after the
\* maxAttempts-th the interval is cleared, the state becomes error, onError is
\* invoked once and no status request is issued, then or later.
C21_GivesUpAfterMaxAttempts ==
    [][ /\ interval' # NoTimer => PollRuns(interval'[1], pollingRef')
        /\ attemptCount' <= MaxAttempts + 1
        /\ (attemptCount' > MaxAttempts /\ attemptCount' # attemptCount) =>
              /\ interval' = NoTimer /\ ~pollingRef'
              /\ state' = "error" /\ callbacks' = {"onError"}
              /\ requested' = NoJob
        /\ requested' # NoJob => (attemptCount' <= MaxAttempts /\ interval' # NoTimer)
      ]_vars

OptionCallbacks == {"onStatusUpdate", "onComplete", "onFailed", "onError"}

\* C25: a poll result that arrives while polling is stopped (pollingRef.current
\* false, as stopPolling and reset leave it) changes no state and invokes no
\* callback, and after reset the state is idle and stays idle, with no callback
\* invoked, until the next startPolling call, also when a status request was in
\* flight at the time of the call.
C25_StopAndResetAreFinal ==
    [][ /\ \A j \in Jobs, r \in Responses :
              (~pollingRef /\ Respond(j, r)) =>
                  (state' = state /\ callbacks' \cap OptionCallbacks = {})
        /\ state = "idle" =>
              \/ \E j \in Jobs : startPolling(j)
              \/ state' = "idle" /\ callbacks' \cap OptionCallbacks = {}
      ]_vars

\* C26: once the state is completed or failed it does not return to polling
\* without a new startPolling call, and onComplete and onFailed are not invoked
\* again for that call, also when status requests overlap or resolve out of order.
C26_TerminalStatesStable ==
    [][ (state = "completed" \/ state = "failed") =>
          \/ \E j \in Jobs : startPolling(j)
          \/ state' # "polling" /\ callbacks' \cap {"onComplete", "onFailed"} = {}
      ]_vars

IsPercentage(x) == RLe(Zero, x) /\ RLe(x, Hundred)
HandleScrollRuns(y, m) ==
    \/ ScrollEvent(y, m)
    \/ ResizeEvent(y, m)
    \/ \E kind \in {"window", "container"}, en \in BOOLEAN, th \in Thresholds,
          delay \in Delays, cont \in BOOLEAN : MountScroll(kind, en, th, delay, cont, y, m)
    \/ \E en \in BOOLEAN, th \in Thresholds, delay \in Delays :
          OptionsChange(en, th, delay, y, m)

\* C22: after every scroll or resize event the scrollProgress of useScrollPosition and
\* of useContainerScroll is a percentage in [0, 100], for every offset the host
\* reports, overscroll included, and it is 0 when the content is not scrollable
C22_ProgressIsPercentage ==
    [][ /\ IsPercentage(scrollState'.scrollProgress)
        /\ \A y \in ScrollOffsets, m \in MaxScrolls :
              (HandleScrollRuns(y, m) /\ m <= 0 /\ scrollState' # scrollState) =>
                  scrollState'.scrollProgress = Zero
      ]_vars

C27_PollingStopsForGood ==
    [][ /\ Cardinality(pageIntervals') <= 1
        /\ pageIntervals' # {} => (pageState' = "processing" /\ pageJobId' # NoJob)
        /\ \A id \in IntervalIds :
              (StatusResolves(id, "completed") \/ StatusResolves(id, "failed")) =>
                  id \notin pageIntervals'
        /\ (pageObserved /\ (pageState = "ready" \/ pageState = "error")
                /\ pageState' = "processing") =>
              \E j \in Jobs : StartResolves(j)
      ]_vars

\* C28: usePaperData never shows a stale result: a response that puts the hook in
\* the ready or not_found state is that of the most recent fetch issued for the
\* hook's current arxivId
C28_NeverStale ==
    [][ (paperState' # paperState
            /\ (paperState'.status = "ready" \/ paperState'.status = "not_found")) =>
          /\ arxivId' \in ArxivIds
          /\ paperState'.arxivId = arxivId'
          /\ paperState'.fetch = paperLatest'[arxivId']
      ]_vars
====
